---- MODULE Spec2Model ----
(***************************************************************************)
(* Session manager of the Smart Library frontend                           *)
(* (src/contexts/AuthContext.tsx, AuthProvider) as a state machine.        *)
(*                                                                         *)
(* One action per event handler or per continuation of an async function:  *)
(* an async function runs synchronously up to its first await, and what    *)
(* follows the await is a separate step taken when the awaited promise     *)
(* settles.  Between the two any other handler may run.                    *)
(*                                                                         *)
(* The second useEffect (deps [user, lastActivity]) is folded into every   *)
(* action that calls setUser or setLastActivity: React runs its cleanup    *)
(* and body right after the render such a call causes.                     *)
(*                                                                         *)
(* Time is a discrete clock.  Durations are in model time units that keep  *)
(* the order of the three durations of the source:                         *)
(*   check interval (10 s) < inactivity limit (10 min) < max session (30   *)
(*   min).                                                                 *)
(***************************************************************************)
EXTENDS Integers, Sequences, FiniteSets, TLC

\* ---------------------------------------------------------------- bounds
MaxTime == 5
MaxLogouts == 2

\* ------------------------------------------------------- program constants
\* setInterval(..., 10000)
CHECK_INTERVAL == 1
\* now - lastActivity > 10 * 60 * 1000
INACTIVITY_LIMIT == 2
\* now - loginTime > 30 * 60 * 1000
MAX_SESSION == 3

\* ------------------------------------------------------------------ values
\* localStorage.getItem(...) === null
Absent == "absent"
NoTime == -1
NoTimer == -1
NoRole == "none"

Roles == {"admin", "student"}
Tokens == {"tokA", "tokS"}
\* (email, password) pairs a caller may submit: one per account, one invalid
Credentials == Tokens \cup {"bad"}

\* The backend's profile of the account a bearer token belongs to.
Account(tk) ==
    IF tk = "tokA"
    THEN [user_id |-> "uA", email |-> "eA", name |-> "nA", role |-> "admin"]
    ELSE [user_id |-> "uS", email |-> "eS", name |-> "nS", role |-> "student"]

NoUser == [user_id |-> "null", email |-> "null", name |-> "null", role |-> "null"]

EmptyStorage ==
    [access_token |-> Absent, user_role |-> Absent, user_name |-> Absent,
     login_time |-> NoTime]

VARIABLES
    now,            \* Date.now()
    mounted,        \* the mount effect has run
    user,           \* useState<User | null>
    loading,        \* useState(true)
    lastActivity,   \* useState(Date.now())
    ls,             \* localStorage: the four keys
    path,           \* window.location.pathname, changed by router.push
    timerDue,       \* next firing time of the setInterval of the effect, or NoTimer
    ca,             \* checkAuth(): position and the token its validate() carries
    si,             \* SIGNED_IN handler: position and the token its validate() carries
    lg,             \* login(): position, arguments, outcome
    logouts,        \* number of logout() calls awaiting supabase.auth.signOut()
    rq,             \* APIClient.request() called by a page: position, header, outcome
    su              \* signup(): position, the error api.signup() threw, the error rethrown

\* The state of the session manager.
session == <<now, mounted, user, loading, lastActivity, ls, path, timerDue, ca, si, lg, logouts>>

vars == <<now, mounted, user, loading, lastActivity, ls, path, timerDue, ca, si, lg, logouts,
          rq, su>>

IdleTask == [pc |-> "idle", tok |-> Absent]
IdleLogin == [pc |-> "idle", cred |-> "bad", expectedRole |-> NoRole, result |-> "none"]
IdleRequest ==
    [pc |-> "idle", supplied |-> Absent, auth |-> Absent, status |-> 0,
     body |-> [kind |-> "none", detail |-> "", message |-> "", text |-> ""],
     thrown |-> "none"]
IdleSignup == [pc |-> "idle", cause |-> "none", thrown |-> "none"]

\* ------------------------------------------------------------ pure helpers
\* The four removeItem calls.
Purge_KeepLoginTime(l) == [EmptyStorage EXCEPT !.login_time = l.login_time]
Purge(l) == EmptyStorage

\* if (!localStorage.getItem('login_time')) localStorage.setItem('login_time', Date.now())
StampIfMissing_Later(l, t) ==
    IF l.login_time < t THEN [l EXCEPT !.login_time = t] ELSE l
StampIfMissing_Always(l, t) == [l EXCEPT !.login_time = t]
StampIfMissing_Never(l, t) == l
StampIfMissing(l, t) ==
    IF l.login_time = NoTime THEN [l EXCEPT !.login_time = t] ELSE l

\* if (expectedRole && response.role !== expectedRole) throw ...
RoleMismatch_Unchecked(expectedRole, role) == FALSE
RoleMismatch(expectedRole, role) == expectedRole # NoRole /\ role # expectedRole

\* The four setItem calls of login().
LoginStorage_KeepStamp(l, tk, t) ==
    StampIfMissing([l EXCEPT !.access_token = tk,
                             !.user_role = Account(tk).role,
                             !.user_name = Account(tk).name], t)
LoginStorage(l, tk, t) ==
    [access_token |-> tk, user_role |-> Account(tk).role,
     user_name |-> Account(tk).name, login_time |-> t]

\* router.push by role
Dashboard_Student(role) == "/student/dashboard"
Dashboard(role) == IF role = "admin" THEN "/admin/dashboard" ELSE "/student/dashboard"

\* The effect with deps [user, lastActivity]: cleanup clears the interval, the
\* body registers a new one only when user is set.
EffectTimer_Always(u, t) == t + CHECK_INTERVAL
EffectTimer(u, t) == IF u = NoUser THEN NoTimer ELSE t + CHECK_INTERVAL

\* ------------------------------------------------------------------- Init
Init ==
    /\ now = 0
    /\ mounted = FALSE
    /\ user = NoUser
    /\ loading = TRUE
    /\ lastActivity = 0
    /\ ls = EmptyStorage
    /\ path = "/login"
    /\ timerDue = NoTimer
    /\ ca = IdleTask
    /\ si = IdleTask
    /\ lg = IdleLogin
    /\ logouts = 0
    /\ rq = IdleRequest
    /\ su = IdleSignup

\* ---------------------------------------------------------------- startup
\* The mount effect: checkAuth() up to its await, and the subscriptions.
Mount_AlwaysValidates ==
    /\ ~mounted
    /\ mounted' = TRUE
    /\ ca' = [pc |-> "await", tok |-> ls.access_token]
    /\ UNCHANGED <<now, user, loading, lastActivity, ls, path, timerDue, si, lg,
                   logouts, rq, su>>
Mount ==
    /\ ~mounted
    /\ mounted' = TRUE
    /\ IF ls.access_token = Absent
       THEN /\ loading' = FALSE
            /\ ca' = [pc |-> "done", tok |-> Absent]
       ELSE /\ loading' = loading
            /\ ca' = [pc |-> "await", tok |-> ls.access_token]
    /\ UNCHANGED <<now, user, lastActivity, ls, path, timerDue, si, lg,
                   logouts,
                   rq, su>>

\* checkAuth(): api.validate() fulfilled.
CheckAuthOk ==
    /\ ca.pc = "await"
    /\ LET r == Account(ca.tok) IN
       /\ user' = [user_id |-> r.user_id, email |-> r.email,
                   name |-> IF ls.user_name # Absent THEN ls.user_name ELSE r.email,
                   role |-> r.role]
       /\ ls' = StampIfMissing(ls, now)
    /\ loading' = FALSE
    /\ timerDue' = EffectTimer(user', now)
    /\ ca' = [pc |-> "done", tok |-> Absent]
    /\ UNCHANGED <<now, mounted, lastActivity, path, si, lg, logouts,
                   rq, su>>

\* checkAuth(): api.validate() rejected (non-2xx or network failure).
CheckAuthFail ==
    /\ ca.pc = "await"
    /\ ls' = Purge(ls)
    /\ loading' = FALSE
    /\ ca' = [pc |-> "done", tok |-> Absent]
    /\ UNCHANGED <<now, mounted, user, lastActivity, path, timerDue, si, lg,
                   logouts,
                   rq, su>>

\* -------------------------------------------------- third-party auth events
\* onAuthStateChange('SIGNED_IN', session) up to the await of api.validate().
SignedIn(tk) ==
    /\ mounted
    /\ si.pc = "idle"
    /\ loading' = TRUE
    /\ ls' = [StampIfMissing(ls, now) EXCEPT !.access_token = tk]
    /\ si' = [pc |-> "await", tok |-> tk]
    /\ UNCHANGED <<now, mounted, user, lastActivity, path, timerDue, ca, lg,
                   logouts,
                   rq, su>>

\* SIGNED_IN handler: api.validate() fulfilled.
SignedInOk ==
    /\ si.pc = "await"
    /\ LET r == Account(si.tok) IN
       /\ user' = [user_id |-> r.user_id, email |-> r.email, name |-> r.name,
                   role |-> r.role]
       /\ ls' = [ls EXCEPT !.user_role = r.role, !.user_name = r.name]
       /\ path' = IF path \in {"/login", "/signup"} THEN Dashboard(r.role) ELSE path
    /\ loading' = FALSE
    /\ timerDue' = EffectTimer(user', now)
    /\ si' = IdleTask
    /\ UNCHANGED <<now, mounted, lastActivity, ca, lg, logouts,
                   rq, su>>

\* SIGNED_IN handler: api.validate() rejected; the catch block starts
\* supabase.auth.signOut() and awaits it.
SignedInFail ==
    /\ si.pc = "await"
    /\ si' = [pc |-> "signout", tok |-> Absent]
    /\ UNCHANGED <<now, mounted, user, loading, lastActivity, ls, path, timerDue,
                   ca, lg, logouts,
                   rq, su>>

\* catch block after signOut() fulfilled, then finally.
SignedInCatchResolved ==
    /\ si.pc = "signout"
    /\ ls' = Purge(ls)
    /\ user' = NoUser
    /\ loading' = FALSE
    /\ timerDue' = EffectTimer(user', now)
    /\ si' = IdleTask
    /\ UNCHANGED <<now, mounted, lastActivity, path, ca, lg, logouts,
                   rq, su>>

\* signOut() rejected inside the catch block: only finally runs.
SignedInCatchRejected ==
    /\ si.pc = "signout"
    /\ loading' = FALSE
    /\ si' = IdleTask
    /\ UNCHANGED <<now, mounted, user, lastActivity, ls, path, timerDue, ca,
                   lg, logouts,
                   rq, su>>

\* onAuthStateChange('SIGNED_OUT')
SignedOut ==
    /\ mounted
    /\ user' = NoUser
    /\ ls' = Purge(ls)
    /\ path' = "/login"
    /\ timerDue' = EffectTimer(user', now)
    /\ UNCHANGED <<now, mounted, loading, lastActivity, ca, si, lg, logouts,
                   rq, su>>

\* ------------------------------------------------------------------ login
\* login(email, password, expectedRole) up to the await of api.login().
LoginCall(cred, expectedRole) ==
    /\ mounted
    /\ lg.pc # "await"
    /\ lg' = [pc |-> "await", cred |-> cred, expectedRole |-> expectedRole,
              result |-> "none"]
    /\ UNCHANGED <<now, mounted, user, loading, lastActivity, ls, path, timerDue,
                   ca, si, logouts,
                   rq, su>>

\* api.login() fulfilled: the backend accepted the credentials.
LoginOk ==
    /\ lg.pc = "await"
    /\ lg.cred \in Tokens
    /\ LET r == Account(lg.cred) IN
       IF RoleMismatch(lg.expectedRole, r.role)
       THEN /\ lg' = [lg EXCEPT !.pc = "done", !.result = "AccessDenied"]
            /\ UNCHANGED <<user, ls, path, timerDue>>
       ELSE /\ ls' = LoginStorage(ls, lg.cred, now)
            /\ user' = [user_id |-> r.user_id, email |-> r.email, name |-> r.name,
                        role |-> r.role]
            /\ path' = Dashboard(r.role)
            /\ timerDue' = EffectTimer(user', now)
            /\ lg' = [lg EXCEPT !.pc = "done", !.result = "ok"]
    /\ UNCHANGED <<now, mounted, loading, lastActivity, ca, si, logouts,
                   rq, su>>

\* api.login() rejected (bad credentials or network failure): rethrown.
LoginFail ==
    /\ lg.pc = "await"
    /\ lg' = [IdleLogin EXCEPT !.pc = "done", !.result = "Failed"]
    /\ UNCHANGED <<now, mounted, user, loading, lastActivity, ls, path, timerDue,
                   ca, si, logouts,
                   rq, su>>

\* ----------------------------------------------------------------- logout
\* logout() up to the await of supabase.auth.signOut().
StartLogout ==
    /\ logouts < MaxLogouts
    /\ logouts' = logouts + 1

\* What logout() leaves once the signOut() it awaits has settled.
LogoutEnd(s, outcome) ==
    IF outcome = "fulfilled"
    THEN [user |-> NoUser, ls |-> Purge(s.ls), path |-> "/login"]
    ELSE s

Session == [user |-> user, ls |-> ls, path |-> path]

\* What a caller that neither awaits nor catches the promise of logout()
\* (the interval callback, handleUnauthorized) surfaces once it settles: an
\* async function rejects with what an await outside try/catch rejects with.
LogoutError(outcome) ==
    IF outcome = "rejected" THEN "unhandledrejection" ELSE "none"

\* logout called by a component (nav bar).
LogoutCall ==
    /\ mounted
    /\ StartLogout
    /\ UNCHANGED <<now, mounted, user, loading, lastActivity, ls, path, timerDue,
                   ca, si, lg,
                   rq, su>>

\* window 'auth:unauthorized' -> handleUnauthorized -> logout()
Unauthorized ==
    /\ mounted
    /\ StartLogout
    /\ UNCHANGED <<now, mounted, user, loading, lastActivity, ls, path, timerDue,
                   ca, si, lg,
                   rq, su>>

\* The signOut() awaited by a pending logout() settles.
LogoutSettle(outcome) ==
    /\ logouts > 0
    /\ LET e == LogoutEnd(Session, outcome) IN
       /\ user' = e.user
       /\ ls' = e.ls
       /\ path' = e.path
    /\ timerDue' = IF outcome = "fulfilled" THEN EffectTimer(user', now) ELSE timerDue
    /\ logouts' = logouts - 1
    /\ UNCHANGED <<now, mounted, loading, lastActivity, ca, si, lg,
                   rq, su>>

LogoutResolve == LogoutSettle("fulfilled")
LogoutReject == LogoutSettle("rejected")

\* ------------------------------------------------- activity and the timer
\* handleActivity (mousemove, keypress, click, scroll); registered while user is set.
Activity ==
    /\ user # NoUser
    /\ lastActivity # now
    /\ lastActivity' = now
    /\ timerDue' = EffectTimer(user, now)
    /\ UNCHANGED <<now, mounted, user, loading, ls, path, ca, si, lg, logouts,
                   rq, su>>

Inactive_AtLimit(t) == t - lastActivity >= INACTIVITY_LIMIT
Inactive(t) == t - lastActivity > INACTIVITY_LIMIT
Expired(t) == ls.login_time # NoTime /\ t - ls.login_time > MAX_SESSION

\* The number of logout() calls one run of the interval callback makes.
CheckCalls(t) ==
    (IF Inactive(t) THEN 1 ELSE 0) + (IF Expired(t) THEN 1 ELSE 0)

\* The setInterval callback.
IntervalFire ==
    /\ timerDue # NoTimer
    /\ now = timerDue
    /\ logouts + CheckCalls(now) <= MaxLogouts
    /\ logouts' = logouts + CheckCalls(now)
    /\ timerDue' = now + CHECK_INTERVAL
    /\ UNCHANGED <<now, mounted, user, loading, lastActivity, ls, path, ca, si, lg,
                   rq, su>>

\* Time passes (the mount effect runs right after construction, before any
\* time has passed); a due interval callback runs before the clock moves on.
Tick ==
    /\ mounted
    /\ now < MaxTime
    /\ timerDue = NoTimer \/ now < timerDue
    /\ now' = now + 1
    /\ UNCHANGED <<mounted, user, loading, lastActivity, ls, path, timerDue, ca, si, lg, logouts,
                   rq, su>>

\* Page reload: a new AuthProvider over the same localStorage and location.
Reload ==
    /\ mounted
    /\ mounted' = FALSE
    /\ user' = NoUser
    /\ loading' = TRUE
    /\ lastActivity' = now
    /\ timerDue' = NoTimer
    /\ ca' = IdleTask
    /\ si' = IdleTask
    /\ lg' = IdleLogin
    /\ logouts' = 0
    /\ rq' = IdleRequest
    /\ su' = IdleSignup
    /\ UNCHANGED <<now, ls, path>>

\* The session manager.  The steps of APIClient.request() and of signup(),
\* which write none of the session variables, are in NextRequest and
\* NextSignup below; under Next rq and su stay idle.
Next ==
    \/ Mount
    \/ CheckAuthOk
    \/ CheckAuthFail
    \/ \E tk \in Tokens : SignedIn(tk)
    \/ SignedInOk
    \/ SignedInFail
    \/ SignedInCatchResolved
    \/ SignedInCatchRejected
    \/ SignedOut
    \/ \E c \in Credentials, e \in Roles \cup {NoRole} : LoginCall(c, e)
    \/ LoginOk
    \/ LoginFail
    \/ LogoutCall
    \/ Unauthorized
    \/ LogoutResolve
    \/ LogoutReject
    \/ Activity
    \/ IntervalFire
    \/ Tick
    \/ Reload

Spec == Init /\ [][Next]_vars

TypeOK ==
    /\ now \in 0..MaxTime
    /\ mounted \in BOOLEAN
    /\ loading \in BOOLEAN
    /\ lastActivity \in 0..MaxTime
    /\ ls.access_token \in Tokens \cup {Absent}
    /\ ls.login_time \in {NoTime} \cup 0..MaxTime
    /\ timerDue \in {NoTimer} \cup 0..(MaxTime + CHECK_INTERVAL)
    /\ logouts \in 0..MaxLogouts

\* -------------------------------------------------------- sub-specifications
\* Each next-state relation below, up to NextUnauthorized, is a
\* sub-disjunction of Next, so each of its behaviours is a behaviour of Spec;
\* so is NextForcedLogout.

\* Validation racing with logout(): the only purge is the one of logout().
NextLogoutRace ==
    \/ Mount
    \/ Reload
    \/ \E tk \in Tokens : SignedIn(tk)
    \/ SignedInOk
    \/ CheckAuthOk
    \/ \E c \in Credentials, e \in Roles \cup {NoRole} : LoginCall(c, e)
    \/ LoginOk
    \/ LogoutCall
    \/ LogoutResolve

SpecLogoutRace == Init /\ [][NextLogoutRace]_vars

\* A password session under the periodic check, with user activity; every
\* signOut() awaited by logout() is fulfilled.
NextExpiry ==
    \/ Mount
    \/ \E c \in Credentials, e \in Roles \cup {NoRole} : LoginCall(c, e)
    \/ LoginOk
    \/ Activity
    \/ IntervalFire
    \/ Tick
    \/ LogoutResolve

SpecExpiry == Init /\ [][NextExpiry]_vars

\* A password session under the periodic check with no user activity: every
\* logout() is one the interval callback called.
NextInactivity ==
    \/ Mount
    \/ \E c \in Credentials, e \in Roles \cup {NoRole} : LoginCall(c, e)
    \/ LoginOk
    \/ IntervalFire
    \/ Tick
    \/ LogoutResolve
    \/ LogoutReject

SpecInactivity == Init /\ [][NextInactivity]_vars

\* A password session whose only logout() calls come from the
\* 'auth:unauthorized' listener.
NextUnauthorized ==
    \/ Mount
    \/ \E c \in Credentials, e \in Roles \cup {NoRole} : LoginCall(c, e)
    \/ LoginOk
    \/ LoginFail
    \/ Unauthorized
    \/ LogoutResolve
    \/ LogoutReject
    \/ Tick

SpecUnauthorized == Init /\ [][NextUnauthorized]_vars

\* A password session whose logout() calls all come from the interval
\* callback or from the 'auth:unauthorized' listener.
NextForcedLogout ==
    \/ Mount
    \/ \E c \in Credentials, e \in Roles \cup {NoRole} : LoginCall(c, e)
    \/ LoginOk
    \/ IntervalFire
    \/ Unauthorized
    \/ Tick
    \/ LogoutResolve
    \/ LogoutReject

SpecForcedLogout == Init /\ [][NextForcedLogout]_vars

\* -------------------------------------------------------------- API client
\* HTTP statuses the backend answers with; response.ok is 200..299.
Statuses == {200, 401, 500}
ResponseOk(status) == status >= 200 /\ status <= 299

\* A detail that is not a string: a list or an object (JSON.parse gives
\* whatever JSON value the backend sent).
Structured == "<list>"

\* The body of an error response: text that is not JSON, the JSON value
\* null, or a JSON object with its detail and message ("" is a missing or
\* empty field).
NoBody == [kind |-> "none", detail |-> "", message |-> "", text |-> ""]
ErrorBodies ==
    [kind : {"object"}, detail : {"", "Not authenticated", Structured},
     message : {"", "Unauthorized"}, text : {""}]
    \cup [kind : {"text"}, detail : {""}, message : {""},
          text : {"", "Internal Server Error"}]
    \cup [kind : {"null"}, detail : {""}, message : {""}, text : {""}]

\* try { error = JSON.parse(text) } catch { error = { detail: text } }
ParsedError(body) ==
    IF body.kind = "text"
    THEN [detail |-> body.text, message |-> ""]
    ELSE [detail |-> body.detail, message |-> body.message]

\* new Error(v).message: the string v converted by String(v).
ErrorMessage(v) == IF v = Structured THEN "[object Object]" ELSE v

\* new Error(error.detail || error.message || 'Request failed'); reading
\* error.detail of null throws a TypeError instead.
RequestError(body) ==
    IF body.kind = "null" THEN "Cannot read properties of null (reading 'detail')"
    ELSE LET error == ParsedError(body) IN
         IF error.detail # "" THEN ErrorMessage(error.detail)
         ELSE IF error.message # "" THEN ErrorMessage(error.message)
         ELSE "Request failed"

\* An Authorization header a caller may pass in options.headers (none of
\* the client's own methods does).
SuppliedHeaders == {Absent, "Bearer other"}

\* `Bearer ${token}`
Bearer(token) == "Bearer " \o token

\* The Authorization header of the request: headers starts without one,
\* Object.assign copies the caller's, and if (token) overwrites it.
AuthorizationHeader_CallerWins(token, supplied) ==
    IF supplied # Absent THEN supplied
    ELSE IF token # Absent THEN Bearer(token) ELSE Absent
AuthorizationHeader(token, supplied) ==
    IF token # Absent THEN Bearer(token) ELSE supplied

\* A page calls a method of the API client: request() up to the await of
\* fetch().  The Authorization header is built from the token stored now.
ApiCall(supplied) ==
    /\ mounted
    /\ rq.pc # "await"
    /\ rq' = [pc |-> "await", supplied |-> supplied,
              auth |-> AuthorizationHeader(ls.access_token, supplied),
              status |-> 0, body |-> NoBody, thrown |-> "none"]
    /\ UNCHANGED <<session, su>>

\* fetch() fulfilled: request() returns the body, or throws for a non-2xx
\* status.  It dispatches no event and calls nothing of the session manager.
ApiResponse(status, body) ==
    /\ rq.pc = "await"
    /\ rq' = [rq EXCEPT !.pc = "done", !.status = status,
                        !.body = IF ResponseOk(status) THEN NoBody ELSE body,
                        !.thrown = IF ResponseOk(status) THEN "none"
                                   ELSE RequestError(body)]
    /\ UNCHANGED <<session, su>>

\* A password session whose pages call the API client.  Unauthorized is left
\* out: no code of the repository dispatches 'auth:unauthorized'.
NextRequest ==
    \/ Mount
    \/ \E c \in Credentials, e \in Roles \cup {NoRole} : LoginCall(c, e)
    \/ LoginOk
    \/ LoginFail
    \/ LogoutCall
    \/ LogoutResolve
    \/ \E h \in SuppliedHeaders : ApiCall(h)
    \/ \E st \in Statuses, b \in ErrorBodies : ApiResponse(st, b)

SpecRequest == Init /\ [][NextRequest]_vars

\* ----------------------------------------------------------------- signup
\* The message of the Error api.signup() rejects with: the one request()
\* throws for an error response, or the one fetch() rejects with.
SignupErrors == {RequestError(b) : b \in ErrorBodies} \cup {"Failed to fetch"}

\* error.message || 'Signup failed'
Rethrown_Fallback(message, fallback) == fallback
Rethrown(message, fallback) == IF message # "" THEN message ELSE fallback

\* signup(data) up to the await of api.signup().
SignupCall ==
    /\ mounted
    /\ su.pc # "await"
    /\ su' = [pc |-> "await", cause |-> "none", thrown |-> "none"]
    /\ UNCHANGED <<session, rq>>

\* api.signup() fulfilled: signup() returns.
SignupOk ==
    /\ su.pc = "await"
    /\ su' = [su EXCEPT !.pc = "done"]
    /\ UNCHANGED <<session, rq>>

\* api.signup() rejected: the catch rethrows.
SignupFail(message) ==
    /\ su.pc = "await"
    /\ su' = [pc |-> "done", cause |-> message,
              thrown |-> Rethrown(message, "Signup failed")]
    /\ UNCHANGED <<session, rq>>

\* The session manager at one instant (no Tick, so that neither Activity nor
\* IntervalFire is enabled) together with signup().
NextSignup ==
    \/ Mount
    \/ CheckAuthOk
    \/ CheckAuthFail
    \/ \E tk \in Tokens : SignedIn(tk)
    \/ SignedInOk
    \/ SignedInFail
    \/ SignedInCatchResolved
    \/ SignedInCatchRejected
    \/ SignedOut
    \/ \E c \in Credentials, e \in Roles \cup {NoRole} : LoginCall(c, e)
    \/ LoginOk
    \/ LoginFail
    \/ LogoutCall
    \/ Unauthorized
    \/ LogoutResolve
    \/ LogoutReject
    \/ Reload
    \/ SignupCall
    \/ SignupOk
    \/ \E m \in SignupErrors : SignupFail(m)

SpecSignup == Init /\ [][NextSignup]_vars

\* ------------------------------------------------------------------ claims
Unauthenticated == user = NoUser /\ ls = EmptyStorage

\* A step in which a pending logout() finishes (its signOut() settled).
LogoutSettled == mounted' /\ logouts' = logouts - 1

\* A step in which the response of a validate() call is handled.
ValidationHandled ==
    /\ mounted'
    /\ \/ ca.pc = "await" /\ ca'.pc = "done"
       \/ si.pc = "await" /\ si'.pc # "await"

\* C1: once logout() has purged the session while a validate() call is still
\* in flight (under SpecLogoutRace nothing else removes access_token, so the
\* token being absent when the response is handled means exactly that), the
\* response commits nothing: user stays null and no storage key is written.
C1_StaleValidationDiscarded ==
    [][(ValidationHandled /\ ls.access_token = Absent)
         => (user' = NoUser /\ ls' = ls)]_vars

\* C2: user is never non-null while access_token is absent from storage (the
\* "only if" half of: user is non-null iff access_token is present and was
\* last validated successfully).
C2_UserOnlyWithToken == user # NoUser => ls.access_token # Absent

\* C3: whenever a logout() call finishes, whatever the outcome of the
\* signOut() it awaited, user is null, the four keys are absent and the
\* location is /login.
C3_LogoutAlwaysPurges ==
    [][LogoutSettled => (Unauthenticated' /\ path' = "/login")]_vars

\* C4: from every reachable state, for every outcome of the two signOut()
\* calls, user and the four keys after two successive logout() calls equal
\* user and the four keys after the first call alone.
SignOutOutcomes == {"fulfilled", "rejected"}
SessionState(s) == <<s.user, s.ls>>
C4_LogoutIdempotent ==
    \A o1 \in SignOutOutcomes, o2 \in SignOutOutcomes :
        SessionState(LogoutEnd(LogoutEnd(Session, o1), o2))
            = SessionState(LogoutEnd(Session, o1))

\* A step in which login() handles a successful response of api.login().
LoginAnswered ==
    /\ lg.pc = "await"
    /\ lg'.pc = "done"
    /\ lg'.result # "Failed"
    /\ lg.cred \in Tokens

\* C5: when login() handles a successful response whose role differs from a
\* supplied expectedRole, it fails with the access-denied error and user, the
\* four keys and the location are left as they were.
C5_MismatchCommitsNothing ==
    [][(LoginAnswered /\ lg.expectedRole # NoRole
          /\ Account(lg.cred).role # lg.expectedRole)
         => (lg'.result = "AccessDenied" /\ user' = user /\ ls' = ls /\ path' = path)]_vars

\* C5 witness: a login denied for its role has finished and the caller, who
\* started Unauthenticated, is still Unauthenticated.
C5_Witness ==
    /\ lg.pc = "done"
    /\ lg.result = "AccessDenied"
    /\ lg.expectedRole # NoRole
    /\ Unauthenticated

\* C6: when login() handles a successful response whose role equals the
\* supplied expectedRole, user is set with that role and access_token,
\* user_role, user_name and login_time (= now) are all stored.
C6_MatchEstablishesSession ==
    [][(LoginAnswered /\ lg.expectedRole = Account(lg.cred).role)
         => (/\ lg'.result = "ok"
             /\ user' # NoUser
             /\ user'.role = lg.expectedRole
             /\ ls'.access_token = lg.cred
             /\ ls'.user_role = lg.expectedRole
             /\ ls'.user_name = Account(lg.cred).name
             /\ ls'.login_time = now)]_vars

\* C6 witness: a login with a matching expectedRole has just succeeded, at a
\* time later than the start of the model's clock.
C6_Witness ==
    /\ lg.pc = "done"
    /\ lg.result = "ok"
    /\ lg.expectedRole = user.role
    /\ ls.user_role = lg.expectedRole
    /\ ls.login_time = now
    /\ now > 0

\* C7: an authenticated session whose login_time T lies more than MAX_SESSION
\* plus one full check interval in the past, and whose periodic check is not
\* due at this very instant, has had logout() called by the periodic check
\* (under SpecExpiry a called logout() stays pending until it purges the
\* session), whatever the user's activity.
C7_ExpiryForcesLogout ==
    (user # NoUser /\ ls.login_time # NoTime
       /\ now > ls.login_time + MAX_SESSION + CHECK_INTERVAL
       /\ timerDue # now)
      => logouts > 0

\* C8: with lastActivity frozen, a logout() the periodic check called finishes,
\* at a time later than lastActivity + INACTIVITY_LIMIT, with the session
\* Unauthenticated.
C8_InactivityLogsOut ==
    [][(LogoutSettled /\ user # NoUser /\ Inactive(now)) => user' = NoUser]_vars

\* C9: whenever access_token is absent from storage, user_role, user_name and
\* login_time are absent too.
C9_NoPartialStorage ==
    ls.access_token = Absent
      => (ls.user_role = Absent /\ ls.user_name = Absent /\ ls.login_time = NoTime)

\* C10: the step that handles 'auth:unauthorized' while Authenticated ends
\* with the session Unauthenticated and the location /login.
C10_UnauthorizedImmediate ==
    [][(Unauthorized /\ user # NoUser)
         => (Unauthenticated' /\ path' = "/login")]_vars

\* A step in which request() handles a response with status 401.
AnsweredUnauthorized ==
    /\ rq.pc = "await"
    /\ rq'.pc = "done"
    /\ rq'.status = 401

\* C11: the step in which request() receives a 401 for an authenticated
\* session runs the 'auth:unauthorized' listener, so that the session
\* manager's logout() is called in that step.
C11_Status401StartsLogout ==
    [][(AnsweredUnauthorized /\ user # NoUser) => logouts' = logouts + 1]_vars

\* C12: the step in which checkAuth() handles a failed validate() of the
\* credential persisted at startup leaves the session Unauthenticated (user
\* null, the four keys absent) and checkAuth() finished, with no second
\* validate() call.
C12_StartupFailureUnauthenticated ==
    [][CheckAuthFail => (Unauthenticated' /\ ca'.pc = "done")]_vars

LoginCommitted == lg.pc = "await" /\ lg'.pc = "done" /\ lg'.result = "ok"

SignedInStarted == mounted /\ si.pc = "idle" /\ si'.pc = "await"

\* C14: when the SIGNED_IN handler starts while no login_time is stored,
\* login_time becomes the current time, the event's session token becomes the
\* stored access_token, and a validate() call carrying that token is in
\* flight.
C14_SignedInStampsAndValidates ==
    [][(SignedInStarted /\ ls.login_time = NoTime)
         => (/\ ls'.login_time = now
             /\ si'.tok \in Tokens
             /\ ls'.access_token = si'.tok
             /\ si'.pc = "await")]_vars

\* C14 witness: a SIGNED_IN handler that found no login_time (nothing else
\* is stored and no login() ran) awaits validate() at a time later than the
\* start of the clock, with login_time = now and its token stored.
C14_Witness ==
    /\ si.pc = "await"
    /\ now > 0
    /\ ls.login_time = now
    /\ ls.access_token = si.tok
    /\ ls.user_role = Absent
    /\ lg.pc = "idle"
    /\ user = NoUser

\* A step in which the catch block of the SIGNED_IN handler, entered because
\* validate() failed, comes to its end (the signOut() it awaits settled).
SignedInFailureHandled == mounted' /\ si.pc = "signout" /\ si'.pc = "idle"

\* C15: when the SIGNED_IN handler has handled a failed validate(), the local
\* session is Unauthenticated: user is null and the four keys are absent.
C15_SignedInFailurePurges ==
    [][SignedInFailureHandled => Unauthenticated']_vars

\* C16: every step that handles a SIGNED_OUT event, from whatever state, ends
\* with user null, the four keys absent and the location /login.
C16_SignedOutPurges ==
    [][SignedOut => (Unauthenticated' /\ path' = "/login")]_vars

\* C16 witness: a session established by login() and under revalidation by
\* the SIGNED_IN handler has been purged and sent to /login while that
\* handler still awaits validate() and no logout() is pending.
C16_Witness ==
    /\ Unauthenticated
    /\ path = "/login"
    /\ lg.result = "ok"
    /\ si.pc = "await"
    /\ timerDue = NoTimer
    /\ logouts = 0

\* A step of signup(): its call, or the handling of api.signup()'s outcome.
SignupStep == su' # su /\ mounted'

\* C17: no step of signup() changes user, any of the four keys or the
\* location (nor any other session state); a signup() whose api.signup()
\* succeeded throws nothing, and one whose api.signup() failed throws an
\* error with the very message api.signup() failed with.
C17_SignupLeavesSession ==
    [][SignupStep
         => (/\ user' = user /\ ls' = ls /\ path' = path
             /\ UNCHANGED session
             /\ su'.pc = "done" => su'.thrown = su'.cause)]_vars

\* C17 witness: a signup() made while a session is held has failed with the
\* backend's message, and the session is as login() established it.
C17_Witness ==
    /\ su.pc = "done"
    /\ su.cause = "Not authenticated"
    /\ su.thrown = su.cause
    /\ user # NoUser
    /\ lg.result = "ok"
    /\ ls.access_token = lg.cred
    /\ path = Dashboard(user.role)

\* C18: the check interval (and with it the four activity listeners, which
\* the same effect body registers and the same cleanup removes) is registered
\* only while user is non-null: whenever user is null, after a logout or a
\* reload as well, none is registered.
C18_TimerOnlyWithUser == timerDue # NoTimer => (mounted /\ user # NoUser)

\* C18 witness: a session that login() established, and whose interval has
\* fired since, was purged (by logout() or SIGNED_OUT), and no interval is
\* registered any more.
C18_Witness ==
    /\ mounted
    /\ Unauthenticated
    /\ timerDue = NoTimer
    /\ lg.result = "ok"
    /\ path = "/login"
    /\ si.pc = "idle"
    /\ now > CHECK_INTERVAL

\* No login(), validation or logout() is in flight.
Quiescent == lg.pc # "await" /\ ca.pc # "await" /\ si.pc = "idle" /\ logouts = 0

\* C19: whenever a user is held and a credential is stored, the user is the
\* account of that credential (the identity was obtained by login with, or
\* validation of, the stored access_token).  Stated for the states in which
\* every concurrent operation has completed.
C19_UserOfStoredCredential ==
    (Quiescent /\ user # NoUser /\ ls.access_token # Absent)
      => user.user_id = Account(ls.access_token).user_id

\* A step in which a pending logout() of a held session finishes, the
\* signOut() it awaited having settled with outcome o.
HeldSessionLogoutSettled(o) ==
    /\ LogoutSettled
    /\ user # NoUser
    /\ Session' = LogoutEnd(Session, o)

\* C20: a logout() called by the interval callback or by the
\* 'auth:unauthorized' listener always finishes with the session purged and
\* the location /login, and surfaces no error, whatever the outcome of the
\* signOut() it awaited.
C20_ForcedLogoutSilent ==
    [][\A o \in SignOutOutcomes :
          HeldSessionLogoutSettled(o)
            => (Unauthenticated' /\ path' = "/login" /\ LogoutError(o) = "none")]_vars

\* A step in which request() handles a response that is not 2xx.
AnsweredNotOk ==
    /\ rq.pc = "await"
    /\ rq'.pc = "done"
    /\ ~ResponseOk(rq'.status)

\* The message C21 gives for an error body: its detail when non-empty (the
\* raw text when the body is not JSON), else its message, else
\* 'Request failed'.
StatedMessage(body) ==
    LET detail == IF body.kind = "text" THEN body.text ELSE body.detail IN
    IF detail # "" THEN detail
    ELSE IF body.message # "" THEN body.message
    ELSE "Request failed"

\* C21: when request() handles a response that is not 2xx it throws, and
\* the message of the error is the body's detail when non-empty, else its
\* message, else 'Request failed', raw text that is not JSON counting as the
\* detail.
C21_NotOkThrowsDetail ==
    [][AnsweredNotOk
         => (rq'.thrown # "none" /\ rq'.thrown = StatedMessage(rq'.body))]_vars

\* A step in which handleActivity runs for an event that follows an earlier
\* activity event of the same session (lastActivity is later than
\* login_time), the interval registered at that earlier event being still
\* the one in place.
BurstContinues ==
    /\ user # NoUser
    /\ lastActivity' # lastActivity
    /\ ls.login_time # NoTime
    /\ lastActivity > ls.login_time
    /\ timerDue = lastActivity + CHECK_INTERVAL

\* C22: activity events are coalesced: an event that follows another one of
\* the same burst does not tear down and re-register the check interval
\* again, so a burst of N events does not cause N re-registrations.
C22_ActivityCoalesced ==
    [][BurstContinues => timerDue' = timerDue]_vars

\* C23: a run of the interval callback calls logout() for no session that is
\* within both thresholds (now - lastActivity <= INACTIVITY_LIMIT, and
\* login_time absent or now - login_time <= MAX_SESSION), and calls it when
\* the inactivity threshold alone or the lifetime threshold alone is passed.
C23_CheckRespectsThresholds ==
    [][IntervalFire
         => (/\ (/\ now - lastActivity <= INACTIVITY_LIMIT
                 /\ (ls.login_time = NoTime \/ now - ls.login_time <= MAX_SESSION))
                => logouts' = logouts
             /\ now - lastActivity > INACTIVITY_LIMIT => logouts' > logouts
             /\ (ls.login_time # NoTime /\ now - ls.login_time > MAX_SESSION)
                => logouts' > logouts)]_vars

\* C23 witness: the check has just run on a session that is exactly at the
\* inactivity limit (and within its lifetime), and no logout() was called.
C23_Witness ==
    /\ user # NoUser
    /\ timerDue = now + CHECK_INTERVAL
    /\ now - lastActivity = INACTIVITY_LIMIT
    /\ ls.login_time = lastActivity
    /\ lg.result = "ok"
    /\ si.pc = "idle"
    /\ ca.pc = "done"
    /\ logouts = 0

\* The step in which the provider is mounted and checkAuth() runs up to its
\* first await or its early return.
Started == ~mounted /\ mounted'

\* C24: at startup a validate() call is made only if an access_token is
\* stored; with none stored, checkAuth() returns with user still null, no
\* storage key written, no call in flight and loading false.
C24_StartupValidatesOnlyWithToken ==
    [][Started
         => (/\ ca'.pc = "await" => (ls.access_token # Absent /\ ca'.tok = ls.access_token)
             /\ ls.access_token = Absent
                => (/\ user' = NoUser
                    /\ ls' = ls
                    /\ loading' = FALSE
                    /\ ca'.pc = "done"
                    /\ si'.pc = "idle" /\ lg'.pc = "idle" /\ rq'.pc = "idle"))]_vars

\* C24 witness: a provider mounted after a reload, at a time later than the
\* start of the clock, found no token: nothing is in flight, nothing is
\* stored, user is null and loading is false.
C24_Witness ==
    /\ mounted
    /\ now > 0
    /\ lastActivity = now
    /\ ca = [pc |-> "done", tok |-> Absent]
    /\ loading = FALSE
    /\ user = NoUser
    /\ ls = EmptyStorage
    /\ si = IdleTask
    /\ lg = IdleLogin

\* A step in which login() handles the outcome of api.login().
LoginSettled == lg.pc = "await" /\ lg'.pc = "done"

\* C25: a login() that succeeds leaves the location at /admin/dashboard when
\* the returned role is admin and at /student/dashboard otherwise, with the
\* credential and the identity of the response committed; a login() that
\* fails (rejected credentials or a role mismatch) leaves the location as it
\* was.
C25_LoginNavigatesByRole ==
    [][LoginSettled
         => IF lg'.result = "ok"
            THEN /\ user'.user_id = Account(lg.cred).user_id
                 /\ ls'.access_token = lg.cred
                 /\ path' = IF Account(lg.cred).role = "admin"
                            THEN "/admin/dashboard"
                            ELSE "/student/dashboard"
            ELSE path' = path]_vars

\* C25 witness: an admin's login has succeeded from the /login page and the
\* location is the admin dashboard, with the admin's credential stored.
C25_Witness ==
    /\ lg.pc = "done"
    /\ lg.result = "ok"
    /\ lg.cred = "tokA"
    /\ user.role = "admin"
    /\ ls.access_token = "tokA"
    /\ ls.user_role = "admin"
    /\ path = "/admin/dashboard"

\* A run of the interval callback that calls logout() for inactivity alone
\* (the lifetime threshold is not passed).
InactivityLogoutCalled ==
    /\ IntervalFire
    /\ Inactive(now)
    /\ ~Expired(now)
    /\ logouts' > logouts

\* C26: when the periodic check calls logout() for inactivity, more than
\* INACTIVITY_LIMIT has elapsed since the session was established (under
\* SpecInactivity every session is established by login(), at login_time).
C26_InactivityClockStartsAtLogin ==
    [][InactivityLogoutCalled => now - ls.login_time > INACTIVITY_LIMIT]_vars

\* C27: whenever user is non-null, login_time is present in storage.
C27_LoginTimeWhileAuthenticated == user # NoUser => ls.login_time # NoTime

\* A step of checkAuth() after its await, or of the SIGNED_IN handler.
RevalidationStep == mounted /\ mounted' /\ (ca' # ca \/ si' # si)

\* C28: no step of checkAuth() or of the SIGNED_IN handler writes login_time
\* while one is stored: such a step leaves a stored login_time exactly as it
\* was, unless it is the failure path, which removes it together with the
\* three other keys.
C28_RevalidationKeepsLoginTime ==
    [][(RevalidationStep /\ ls.login_time # NoTime)
         => (ls'.login_time = ls.login_time \/ ls' = EmptyStorage)]_vars

\* C28 witness: a repeated SIGNED_IN event for the held session is being
\* validated at a time later than the stored login_time, which is still the
\* stored one.
C28_Witness ==
    /\ si.pc = "await"
    /\ loading = TRUE
    /\ user # NoUser
    /\ user.user_id = Account(si.tok).user_id
    /\ ls.access_token = si.tok
    /\ lg.pc = "idle"
    /\ ls.login_time # NoTime
    /\ ls.login_time < now

\* C29: loading is true whenever a validate() call of checkAuth() or of the
\* SIGNED_IN handler is in flight (the first half of the claim: one
\* validation completing does not clear loading while another is pending).
C29_LoadingWhileValidating ==
    (mounted /\ (ca.pc = "await" \/ si.pc = "await")) => loading = TRUE

\* A step in which request() is called and issues its fetch().
RequestIssued == rq.pc # "await" /\ rq'.pc = "await"

\* C30: a request carries the credential stored at the moment it is issued:
\* its Authorization header is 'Bearer <access_token>' when an access_token
\* is stored, whatever header the caller supplied, and when none is stored
\* (initially, or after a purge) the header is the caller's or missing, and
\* is no stored credential.
C30_RequestCarriesStoredToken ==
    [][RequestIssued
         => IF ls.access_token # Absent
            THEN rq'.auth = Bearer(ls.access_token)
            ELSE /\ rq'.auth = rq'.supplied
                 /\ rq'.auth \notin {Bearer(tk) : tk \in Tokens}]_vars

\* C30 witness: a request issued with a caller-supplied Authorization header
\* while a session's token is stored is in flight with the stored token as
\* its header.
C30_Witness ==
    /\ rq.pc = "await"
    /\ rq.supplied # Absent
    /\ ls.access_token = "tokS"
    /\ rq.auth = "Bearer tokS"
    /\ user # NoUser

====
